---- MODULE Spec2Model ----
(***************************************************************************)
(* The persistence layer of the bridge indexer (indexer/db/db.go): the    *)
(* tables l1_blocks, l2_blocks, l1_tokens, l2_tokens, deposits and         *)
(* withdrawals, the ingestion handlers AddIndexedL1Block and               *)
(* AddIndexedL2Block, the token registry and the read queries.             *)
(*                                                                         *)
(* Every handler runs its statements inside txn(d.db, func(tx)...): the    *)
(* statements act on the transaction's view of the database and the view  *)
(* is committed when the closure returns nil and dropped when it returns   *)
(* an error.  One action of the model is one call of one handler.          *)
(***************************************************************************)
EXTENDS Integers, Sequences, FiniteSets, TLC

\* ------------------------------------------------------------------ bounds
\* distinct block hashes per chain scope
MaxHash == 2
\* distinct withdrawal transaction hashes
MaxTx == 2
\* events of one kind (deposits, withdrawals) carried by one bundle
MaxEvents == 1
\* the largest page size (LIMIT) a reader asks for
MaxLimit == 2

\* ------------------------------------------------------------------ values
\* SQL NULL (a column the INSERT does not name) and Go's nil pointer
NULL == <<>>

\* common.Hash.String() and common.Address.String(): the 0x-prefixed hex text
HexString(x) == <<"0x", x>>

\* common.HexToHash: parses the text written by HexString
HexToHash(s) == s[2]

\* big.Int.String(): the decimal text of an amount
DecString(n) == <<"dec", n>>

\* error values returned by the handlers
nil == "nil"
DuplicateKey == "DuplicateKey"
ConnectivityError == "ConnectivityError"
ErrNoRows == "sql.ErrNoRows"
NilDereference == "panic: nil pointer dereference"

Hashes == 1..MaxHash

\* the producers that may call the ingestion handlers at the same time
Producers == {1, 2}
TxHashes == 1..MaxTx

\* ------------------------------------------------------------------ state
VARIABLES
    l1_blocks,      \* set of rows [hash, parent_hash, number, timestamp]
    l2_blocks,      \* set of rows [hash, parent_hash, number, timestamp]
    l1_tokens,      \* set of rows [address, name, symbol, decimals]
    l2_tokens,      \* set of rows [address, name, symbol, decimals]
    deposits,       \* set of deposit rows
    withdrawals,    \* set of withdrawal rows
    ret,            \* the last call: [op, arg, err, val]
    pager,          \* the pages a reader got from GetDepositsByAddress at offsets 0, k, 2k, ...
    inflight        \* per producer: the ingestion transaction it has open, or NULL

tables == <<l1_blocks, l2_blocks, l1_tokens, l2_tokens, deposits, withdrawals>>
vars == <<l1_blocks, l2_blocks, l1_tokens, l2_tokens, deposits, withdrawals, ret, pager, inflight>>

\* the committed database, as one value handed to a transaction
DB ==
    [l1_blocks |-> l1_blocks, l2_blocks |-> l2_blocks,
     l1_tokens |-> l1_tokens, l2_tokens |-> l2_tokens,
     deposits |-> deposits, withdrawals |-> withdrawals]

\* ------------------------------------------------------------------ schema
\* l1_blocks.hash and l2_blocks.hash are unique within their table
BlockHashExists(tbl, hash) == \E r \in tbl : r.hash = hash

\* l1_tokens.address and l2_tokens.address are unique within their table
TokenAddressExists(tbl, address) == \E r \in tbl : r.address = address

\* a withdrawals table without the unique constraint on tx_hash
TxHashConflictNone(tbl, tx_hash) == {}

\* withdrawals.tx_hash is unique: the rows an INSERT of tx_hash conflicts with
TxHashConflict(tbl, tx_hash) == {r \in tbl : r.tx_hash = tx_hash}

\* NewGUID(): an identifier no other call returns; named after the statement
\* that asks for it (chain scope, block, table, position in the bundle)
NewGUID(scope, hash, table, i) == <<scope, hash, table, i>>

\* txn(d.db, apply): commit the transaction's view when apply returns nil,
\* roll back to the state before the call when it returns an error
txn(before, r) ==
    [err |-> r.err, db |-> IF r.err = nil THEN r.db ELSE before]

\* tx.Exec(statement) as the k-th statement of a transaction whose storage
\* connection fails at statement number fail (0: never)
Exec(db, k, fail, result) ==
    IF k = fail THEN [err |-> ConnectivityError, db |-> db] ELSE result

\* ------------------------------------------------------------------ statements
\* the block INSERT with ON CONFLICT (hash) DO UPDATE: a re-delivered hash
\* overwrites the stored header
insertL1BlockStatementUpsert(db, block) ==
    LET row == [hash |-> HexString(block.Hash),
                parent_hash |-> HexString(block.ParentHash),
                number |-> block.Number,
                timestamp |-> block.Timestamp]
    IN  [err |-> nil,
         db |-> [db EXCEPT !.l1_blocks =
                    {r \in @ : r.hash # row.hash} \cup {row}]]

insertL1BlockStatement(db, block) ==
    LET row == [hash |-> HexString(block.Hash),
                parent_hash |-> HexString(block.ParentHash),
                number |-> block.Number,
                timestamp |-> block.Timestamp]
    IN  IF BlockHashExists(db.l1_blocks, row.hash)
        THEN [err |-> DuplicateKey, db |-> db]
        ELSE [err |-> nil, db |-> [db EXCEPT !.l1_blocks = @ \cup {row}]]

insertL2BlockStatement(db, block) ==
    LET row == [hash |-> HexString(block.Hash),
                parent_hash |-> HexString(block.ParentHash),
                number |-> block.Number,
                timestamp |-> block.Timestamp]
    IN  IF BlockHashExists(db.l2_blocks, row.hash)
        THEN [err |-> DuplicateKey, db |-> db]
        ELSE [err |-> nil, db |-> [db EXCEPT !.l2_blocks = @ \cup {row}]]

insertDepositStatement(db, guid, deposit, block) ==
    LET row == [guid |-> guid,
                from_address |-> HexString(deposit.FromAddress),
                to_address |-> HexString(deposit.ToAddress),
                l1_token |-> HexString(deposit.L1Token),
                l2_token |-> HexString(deposit.L2Token),
                amount |-> DecString(deposit.Amount),
                tx_hash |-> HexString(deposit.TxHash),
                log_index |-> deposit.LogIndex,
                l1_block_hash |-> HexString(block.Hash),
                data |-> deposit.Data]
    IN  [err |-> nil, db |-> [db EXCEPT !.deposits = @ \cup {row}]]

\* the row both withdrawal INSERTs propose; each names one block column
WithdrawalRow(guid, withdrawal, l1_block_hash, l2_block_hash) ==
    [guid |-> guid,
     from_address |-> HexString(withdrawal.FromAddress),
     to_address |-> HexString(withdrawal.ToAddress),
     l1_token |-> HexString(withdrawal.L1Token),
     l2_token |-> HexString(withdrawal.L2Token),
     amount |-> DecString(withdrawal.Amount),
     tx_hash |-> HexString(withdrawal.TxHash),
     log_index |-> withdrawal.LogIndex,
     l1_block_hash |-> l1_block_hash,
     l2_block_hash |-> l2_block_hash,
     data |-> withdrawal.Data]

\* DO UPDATE SET l1_block_hash = $9, amount = $6
OnConflictDoUpdateAmount(old, proposed) ==
    [old EXCEPT !.l1_block_hash = proposed.l1_block_hash, !.amount = proposed.amount]

\* DO UPDATE SET l1_block_hash = $10: the l2_block_hash argument, which is nil
OnConflictDoUpdateNull(old, proposed) ==
    [old EXCEPT !.l1_block_hash = proposed.l2_block_hash]

\* ON CONFLICT (tx_hash) DO UPDATE SET l1_block_hash = $9
OnConflictDoUpdate(old, proposed) ==
    [old EXCEPT !.l1_block_hash = proposed.l1_block_hash]

\* AddIndexedL1Block's INSERT INTO withdrawals ... ON CONFLICT (tx_hash) DO UPDATE
insertL1WithdrawalStatement(db, guid, withdrawal, block) ==
    LET row == WithdrawalRow(guid, withdrawal, HexString(block.Hash), NULL)
        old == TxHashConflict(db.withdrawals, row.tx_hash)
    IN  IF old = {}
        THEN [err |-> nil, db |-> [db EXCEPT !.withdrawals = @ \cup {row}]]
        ELSE [err |-> nil,
              db |-> [db EXCEPT !.withdrawals =
                         (@ \ old) \cup {OnConflictDoUpdate(r, row) : r \in old}]]

\* the destination chain's withdrawal INSERT with nil as l2_block_hash
insertL2WithdrawalStatementUnlinked(db, guid, withdrawal, block) ==
    LET row == WithdrawalRow(guid, withdrawal, NULL, NULL)
    IN  IF TxHashConflict(db.withdrawals, row.tx_hash) # {}
        THEN [err |-> DuplicateKey, db |-> db]
        ELSE [err |-> nil, db |-> [db EXCEPT !.withdrawals = @ \cup {row}]]

\* AddIndexedL2Block's INSERT INTO withdrawals: no ON CONFLICT clause
insertL2WithdrawalStatement(db, guid, withdrawal, block) ==
    LET row == WithdrawalRow(guid, withdrawal, NULL, HexString(block.Hash))
    IN  IF TxHashConflict(db.withdrawals, row.tx_hash) # {}
        THEN [err |-> DuplicateKey, db |-> db]
        ELSE [err |-> nil, db |-> [db EXCEPT !.withdrawals = @ \cup {row}]]

\* ------------------------------------------------------------------ ingestion
RECURSIVE InsertDeposits(_, _, _, _)
\* for _, deposit := range block.Deposits, from the i-th deposit on
InsertDeposits(db, block, i, fail) ==
    IF i > Len(block.Deposits)
    THEN [err |-> nil, db |-> db]
    ELSE LET r == Exec(db, 1 + i, fail,
                       insertDepositStatement(
                           db, NewGUID("l1", block.Hash, "deposits", i),
                           block.Deposits[i], block))
         IN  IF r.err # nil THEN r ELSE InsertDeposits(r.db, block, i + 1, fail)

RECURSIVE InsertL1Withdrawals(_, _, _, _)
\* for _, withdrawal := range block.Withdrawals (origin chain), from the i-th on
InsertL1Withdrawals(db, block, i, fail) ==
    IF i > Len(block.Withdrawals)
    THEN [err |-> nil, db |-> db]
    ELSE LET r == Exec(db, 1 + Len(block.Deposits) + i, fail,
                       insertL1WithdrawalStatement(
                           db, NewGUID("l1", block.Hash, "withdrawals", i),
                           block.Withdrawals[i], block))
         IN  IF r.err # nil THEN r ELSE InsertL1Withdrawals(r.db, block, i + 1, fail)

RECURSIVE InsertL2Withdrawals(_, _, _, _)
\* for _, withdrawal := range block.Withdrawals (destination chain), from the i-th on
InsertL2Withdrawals(db, block, i, fail) ==
    IF i > Len(block.Withdrawals)
    THEN [err |-> nil, db |-> db]
    ELSE LET r == Exec(db, 1 + i, fail,
                       insertL2WithdrawalStatement(
                           db, NewGUID("l2", block.Hash, "withdrawals", i),
                           block.Withdrawals[i], block))
         IN  IF r.err # nil THEN r ELSE InsertL2Withdrawals(r.db, block, i + 1, fail)

\* the closure AddIndexedL1Block hands to txn: block row, deposits, withdrawals,
\* returning at the first error and after the block row or the deposits when
\* the list that follows is empty
AddIndexedL1BlockApply(db, block, fail) ==
    LET b == Exec(db, 1, fail, insertL1BlockStatement(db, block))
    IN  IF b.err # nil THEN b
        ELSE IF Len(block.Deposits) = 0 THEN [err |-> nil, db |-> b.db]
        ELSE LET d == InsertDeposits(b.db, block, 1, fail)
             IN  IF d.err # nil THEN d
                 ELSE IF Len(block.Withdrawals) = 0 THEN [err |-> nil, db |-> d.db]
                 ELSE InsertL1Withdrawals(d.db, block, 1, fail)

\* the closure AddIndexedL2Block hands to txn: block row, then withdrawals
AddIndexedL2BlockApply(db, block, fail) ==
    LET b == Exec(db, 1, fail, insertL2BlockStatement(db, block))
    IN  IF b.err # nil THEN b
        ELSE IF Len(block.Withdrawals) = 0 THEN [err |-> nil, db |-> b.db]
        ELSE InsertL2Withdrawals(b.db, block, 1, fail)

\* return txn(d.db, func(tx *sql.Tx) error {...}) of AddIndexedL1Block
AddIndexedL1BlockTxn(db, block, fail) ==
    txn(db, AddIndexedL1BlockApply(db, block, fail))

\* the closure of AddIndexedL2Block run on d.db, outside any transaction
AddIndexedL2BlockNoTxn(db, block, fail) ==
    AddIndexedL2BlockApply(db, block, fail)

\* return txn(d.db, func(tx *sql.Tx) error {...}) of AddIndexedL2Block
AddIndexedL2BlockTxn(db, block, fail) ==
    txn(db, AddIndexedL2BlockApply(db, block, fail))

AddIndexedL1Block(block, fail) ==
    LET r == AddIndexedL1BlockTxn(DB, block, fail)
    IN  /\ l1_blocks' = r.db.l1_blocks
        /\ deposits' = r.db.deposits
        /\ withdrawals' = r.db.withdrawals
        /\ ret' = [op |-> "AddIndexedL1Block", arg |-> block, err |-> r.err, val |-> NULL]
        /\ UNCHANGED <<l2_blocks, l1_tokens, l2_tokens, pager, inflight>>

AddIndexedL2Block(block, fail) ==
    LET r == AddIndexedL2BlockTxn(DB, block, fail)
    IN  /\ l2_blocks' = r.db.l2_blocks
        /\ withdrawals' = r.db.withdrawals
        /\ ret' = [op |-> "AddIndexedL2Block", arg |-> block, err |-> r.err, val |-> NULL]
        /\ UNCHANGED <<l1_blocks, l1_tokens, l2_tokens, deposits, pager, inflight>>

\* ------------------------------------------------------------------ token registry
\* the token INSERT with ON CONFLICT (address) DO UPDATE: a second
\* registration overwrites the stored metadata
insertTokenStatementUpsert(tbl, address, token) ==
    [err |-> nil,
     tbl |-> {r \in tbl : r.address # address}
                 \cup {[address |-> address, name |-> token.Name,
                        symbol |-> token.Symbol, decimals |-> token.Decimals]}]

\* insertTokenStatement of AddL1Token and AddL2Token: a plain INSERT
insertTokenStatement(tbl, address, token) ==
    IF TokenAddressExists(tbl, address)
    THEN [err |-> DuplicateKey, tbl |-> tbl]
    ELSE [err |-> nil,
          tbl |-> tbl \cup {[address |-> address, name |-> token.Name,
                             symbol |-> token.Symbol, decimals |-> token.Decimals]}]

AddL1Token(address, token) ==
    LET r == insertTokenStatement(l1_tokens, address, token)
    IN  /\ l1_tokens' = r.tbl
        /\ ret' = [op |-> "AddL1Token", arg |-> address, token |-> token,
                   err |-> r.err, val |-> NULL]
        /\ UNCHANGED <<l1_blocks, l2_blocks, l2_tokens, deposits, withdrawals, pager, inflight>>

AddL2Token(address, token) ==
    LET r == insertTokenStatement(l2_tokens, address, token)
    IN  /\ l2_tokens' = r.tbl
        /\ ret' = [op |-> "AddL2Token", arg |-> address, token |-> token,
                   err |-> r.err, val |-> NULL]
        /\ UNCHANGED <<l1_blocks, l2_blocks, l1_tokens, deposits, withdrawals, pager, inflight>>

\* selectL1TokenStatement / selectL2TokenStatement: WHERE address = $1
selectTokenStatement(tbl, address) == {r \in tbl : r.address = address}

\* the closure of the token lookup without the errors.Is(err, sql.ErrNoRows)
\* branch: Scan's sql.ErrNoRows is returned as an error
GetTokenByAddressApplyNoRows(tbl, address, fail) ==
    LET rows == selectTokenStatement(tbl, address)
    IN  IF fail THEN [err |-> ConnectivityError, val |-> NULL]
        ELSE IF rows = {} THEN [err |-> ErrNoRows, val |-> NULL]
        ELSE LET r == CHOOSE r \in rows : TRUE
             IN  [err |-> nil,
                  val |-> [Name |-> r.name, Symbol |-> r.symbol, Decimals |-> r.decimals]]

\* the closure of GetL1TokenByAddress and GetL2TokenByAddress: row.Err() is
\* returned (fail: the storage connection failed), sql.ErrNoRows leaves the
\* token nil and returns nil, a scanned row becomes the Token
GetTokenByAddressApply(tbl, address, fail) ==
    LET rows == selectTokenStatement(tbl, address)
    IN  IF fail THEN [err |-> ConnectivityError, val |-> NULL]
        ELSE IF rows = {} THEN [err |-> nil, val |-> NULL]
        ELSE LET r == CHOOSE r \in rows : TRUE
             IN  [err |-> nil,
                  val |-> [Name |-> r.name, Symbol |-> r.symbol, Decimals |-> r.decimals]]

GetL1TokenByAddress(address, fail) ==
    LET r == GetTokenByAddressApply(l1_tokens, address, fail)
    IN  /\ ret' = [op |-> "GetL1TokenByAddress", arg |-> address, err |-> r.err, val |-> r.val]
        /\ UNCHANGED <<tables, pager, inflight>>

GetL2TokenByAddress(address, fail) ==
    LET r == GetTokenByAddressApply(l2_tokens, address, fail)
    IN  /\ ret' = [op |-> "GetL2TokenByAddress", arg |-> address, err |-> r.err, val |-> r.val]
        /\ UNCHANGED <<tables, pager, inflight>>

\* ------------------------------------------------------------------ queries
\* var withdrawal *WithdrawalJSON: declared and never assigned in GetWithdrawalStatus
withdrawalPointer == NULL

\* selectWithdrawalStatement: withdrawals INNER JOIN l1_blocks, l2_blocks, l2_tokens
selectWithdrawalStatement(db, hash) ==
    {j \in db.withdrawals \X db.l1_blocks \X db.l2_blocks \X db.l2_tokens :
        /\ j[1].l1_block_hash = j[2].hash
        /\ j[1].l2_block_hash = j[3].hash
        /\ j[1].l2_token = j[4].address
        /\ j[1].tx_hash = HexString(hash)}

\* the WithdrawalJSON that row.Scan fills from one joined row
WithdrawalJSON(j) ==
    [GUID |-> j[1].guid, FromAddress |-> j[1].from_address,
     ToAddress |-> j[1].to_address, Amount |-> j[1].amount,
     TxHash |-> j[1].tx_hash, Data |-> j[1].data, L1Token |-> j[1].l1_token,
     L2Token |-> [Address |-> j[1].l2_token, Name |-> j[4].name,
                  Symbol |-> j[4].symbol, Decimals |-> j[4].decimals],
     L1BlockNumber |-> j[2].number, L1BlockTimestamp |-> j[2].timestamp,
     L2BlockNumber |-> j[3].number, L2BlockTimestamp |-> j[3].timestamp]

\* the closure of GetWithdrawalStatus: the arguments of row.Scan are the
\* addresses &withdrawal.GUID, ...; evaluating them through a nil pointer
\* panics before Scan runs; Scan's sql.ErrNoRows is returned as an error
GetWithdrawalStatusApply(db, hash, withdrawal) ==
    LET rows == selectWithdrawalStatement(db, hash)
    IN  IF withdrawal = NULL THEN [err |-> NilDereference, val |-> NULL]
        ELSE IF rows = {} THEN [err |-> ErrNoRows, val |-> NULL]
        ELSE [err |-> nil, val |-> WithdrawalJSON(CHOOSE j \in rows : TRUE)]

GetWithdrawalStatus(hash) ==
    LET r == GetWithdrawalStatusApply(DB, hash, withdrawalPointer)
    IN  /\ ret' = [op |-> "GetWithdrawalStatus", arg |-> hash, err |-> r.err, val |-> r.val]
        /\ UNCHANGED <<tables, pager, inflight>>

\* the deposits join without WHERE deposits.from_address = $1
selectDepositsJoinAnyAddress(db, address) ==
    {j \in db.deposits \X db.l1_blocks \X db.l1_tokens :
        /\ j[1].l1_block_hash = j[2].hash
        /\ j[1].l1_token = j[3].address}

\* selectDepositsStatement without ORDER BY, LIMIT and OFFSET, which is also
\* what selectDepositCountStatement counts: deposits INNER JOIN l1_blocks, l1_tokens
selectDepositsJoin(db, address) ==
    {j \in db.deposits \X db.l1_blocks \X db.l1_tokens :
        /\ j[1].l1_block_hash = j[2].hash
        /\ j[1].l1_token = j[3].address
        /\ j[1].from_address = HexString(address)}

\* ORDER BY l1_blocks.timestamp: the orders the database may return the rows
\* in; rows of equal timestamp come in any order, chosen anew by every query
OrderByTimestamp(rows) ==
    {o \in [1..Cardinality(rows) -> rows] :
        /\ \A i, k \in DOMAIN o : i # k => o[i] # o[k]
        /\ \A i, k \in DOMAIN o : i < k => o[i][2].timestamp <= o[k][2].timestamp}

\* LIMIT $2 OFFSET $3
LimitOffset(o, limit, offset) ==
    [i \in 1..(IF Len(o) - offset < limit
               THEN (IF Len(o) > offset THEN Len(o) - offset ELSE 0)
               ELSE limit) |-> o[offset + i]]

\* the DepositJSON that rows.Scan fills from one joined row
DepositJSON(j) ==
    [GUID |-> j[1].guid, FromAddress |-> j[1].from_address,
     ToAddress |-> j[1].to_address, Amount |-> j[1].amount,
     TxHash |-> j[1].tx_hash, Data |-> j[1].data,
     L1Token |-> [Address |-> j[1].l1_token, Name |-> j[3].name,
                  Symbol |-> j[3].symbol, Decimals |-> j[3].decimals],
     L2Token |-> j[1].l2_token,
     BlockNumber |-> j[2].number, BlockTimestamp |-> j[2].timestamp]

\* the page query followed by the count query; o is the order the page query saw
GetDepositsByAddressApply(db, address, limit, offset, o) ==
    LET page == LimitOffset(o, limit, offset)
    IN  [Deposits |-> [i \in DOMAIN page |-> DepositJSON(page[i])],
         Total |-> Cardinality(selectDepositsJoin(db, address)),
         Limit |-> limit, Offset |-> offset]

\* the reader's record of the pages of one address at offsets 0, limit, 2*limit, ...
Paged(p, address, limit, offset, val) ==
    IF offset = 0
    THEN [address |-> address, limit |-> limit, next |-> limit,
          rows |-> val.Deposits, totals |-> {val.Total}]
    ELSE IF p # NULL /\ p.address = address /\ p.limit = limit /\ p.next = offset
    THEN [p EXCEPT !.next = @ + limit, !.rows = @ \o val.Deposits,
                   !.totals = @ \cup {val.Total}]
    ELSE NULL

GetDepositsByAddress(address, limit, offset) ==
    \E o \in OrderByTimestamp(selectDepositsJoin(DB, address)) :
        LET val == GetDepositsByAddressApply(DB, address, limit, offset, o)
        IN  /\ ret' = [op |-> "GetDepositsByAddress", arg |-> address, err |-> nil, val |-> val]
            /\ pager' = Paged(pager, address, limit, offset, val)
            /\ UNCHANGED <<tables, inflight>>

\* selectWithdrawalsStatement without ORDER BY, LIMIT and OFFSET:
\* withdrawals INNER JOIN l2_blocks, l2_tokens WHERE from_address = $1
selectWithdrawalsJoin(db, address) ==
    {j \in db.withdrawals \X db.l2_blocks \X db.l2_tokens :
        /\ j[1].l2_block_hash = j[2].hash
        /\ j[1].l2_token = j[3].address
        /\ j[1].from_address = HexString(address)}

\* SELECT count(*) FROM withdrawals: the size of the whole table
selectWithdrawalCountAll(db, address) == Cardinality(db.withdrawals)

\* selectWithdrawalCountStatement: count(*) over the join and filter of the page
selectWithdrawalCountStatement(db, address) ==
    Cardinality(selectWithdrawalsJoin(db, address))

\* the WithdrawalJSON that rows.Scan fills from one joined row of the listing
WithdrawalListJSON(j) ==
    [GUID |-> j[1].guid, FromAddress |-> j[1].from_address,
     ToAddress |-> j[1].to_address, Amount |-> j[1].amount,
     TxHash |-> j[1].tx_hash, Data |-> j[1].data, L1Token |-> j[1].l1_token,
     L2Token |-> [Address |-> j[1].l2_token, Name |-> j[3].name,
                  Symbol |-> j[3].symbol, Decimals |-> j[3].decimals],
     L2BlockNumber |-> j[2].number, L2BlockTimestamp |-> j[2].timestamp]

\* the page query followed by the count query; o is the order the page query saw
GetWithdrawalsByAddressApply(db, address, limit, offset, o) ==
    LET page == LimitOffset(o, limit, offset)
    IN  [Withdrawals |-> [i \in DOMAIN page |-> WithdrawalListJSON(page[i])],
         Total |-> selectWithdrawalCountStatement(db, address),
         Limit |-> limit, Offset |-> offset]

GetWithdrawalsByAddress(address, limit, offset) ==
    \E o \in OrderByTimestamp(selectWithdrawalsJoin(DB, address)) :
        LET val == GetWithdrawalsByAddressApply(DB, address, limit, offset, o)
        IN  /\ ret' = [op |-> "GetWithdrawalsByAddress", arg |-> address,
                       err |-> nil, val |-> val]
            /\ UNCHANGED <<tables, pager, inflight>>

\* selectBlockByHashStatement of GetIndexedL1BlockByHash: WHERE hash = $1
selectBlockByHashStatement(db, hash) == {r \in db.l1_blocks : r.hash = HexString(hash)}

\* the closure of GetIndexedL1BlockByHash: sql.ErrNoRows leaves the block nil
GetIndexedL1BlockByHashApply(db, hash) ==
    LET rows == selectBlockByHashStatement(db, hash)
    IN  IF rows = {} THEN [err |-> nil, val |-> NULL]
        ELSE LET r == CHOOSE r \in rows : TRUE
             IN  [err |-> nil,
                  val |-> [Hash |-> HexToHash(r.hash),
                           ParentHash |-> HexToHash(r.parent_hash),
                           Number |-> r.number, Timestamp |-> r.timestamp,
                           Deposits |-> NULL]]

GetIndexedL1BlockByHash(hash) ==
    LET r == GetIndexedL1BlockByHashApply(DB, hash)
    IN  /\ ret' = [op |-> "GetIndexedL1BlockByHash", arg |-> hash, err |-> r.err, val |-> r.val]
        /\ UNCHANGED <<tables, pager, inflight>>

\* SELECT number, hash FROM blocks ORDER BY number ASC LIMIT 1
selectLowestBlockStatement(tbl) ==
    {r \in tbl : \A o \in tbl : r.number <= o.number}

\* selectHighestBlockStatement: ORDER BY number DESC LIMIT 1; the rows the
\* database may return (any one of those with the largest number)
selectHighestBlockStatement(tbl) ==
    {r \in tbl : \A o \in tbl : o.number <= r.number}

\* the closure of GetHighestL1Block and GetHighestL2Block for the row the
\* query returned (NULL: sql.ErrNoRows); row.Err() is returned (fail: the
\* storage connection failed)
GetHighestBlockApply(row, fail) ==
    IF fail THEN [err |-> ConnectivityError, val |-> NULL]
    ELSE IF row = NULL THEN [err |-> nil, val |-> NULL]
    ELSE [err |-> nil, val |-> [Number |-> row.number, Hash |-> HexToHash(row.hash)]]

GetHighestL1Block(fail) ==
    LET rows == selectHighestBlockStatement(l1_blocks)
    IN  \E row \in IF rows = {} THEN {NULL} ELSE rows :
            LET r == GetHighestBlockApply(row, fail)
            IN  /\ ret' = [op |-> "GetHighestL1Block", arg |-> NULL, err |-> r.err, val |-> r.val]
                /\ UNCHANGED <<tables, pager, inflight>>

GetHighestL2Block(fail) ==
    LET rows == selectHighestBlockStatement(l2_blocks)
    IN  \E row \in IF rows = {} THEN {NULL} ELSE rows :
            LET r == GetHighestBlockApply(row, fail)
            IN  /\ ret' = [op |-> "GetHighestL2Block", arg |-> NULL, err |-> r.err, val |-> r.val]
                /\ UNCHANGED <<tables, pager, inflight>>

\* ------------------------------------------------------------------ concurrent ingestion
\* Producers call the ingestion handlers at the same time: each call opens a
\* transaction, runs the statements of its closure one by one and commits.
\* The tables are what is committed, which is what every other connection
\* reads; a transaction sees them and its own writes.  A statement that
\* writes a unique key another open transaction has written waits for that
\* transaction to end.

\* the writes of a transaction that has written nothing
NoWrites ==
    [l1_blocks |-> {}, l2_blocks |-> {}, deposits |-> {}, withdrawals |-> {},
     superseded |-> {}]

\* the database as the statements of producer p's transaction see it
View(p) ==
    LET w == inflight[p].writes
    IN  [DB EXCEPT !.l1_blocks = @ \cup w.l1_blocks,
                   !.l2_blocks = @ \cup w.l2_blocks,
                   !.deposits = @ \cup w.deposits,
                   !.withdrawals = (@ \ w.superseded) \cup w.withdrawals]

\* the uncommitted writes of a transaction whose view has become db
WritesOf(db) ==
    [l1_blocks |-> db.l1_blocks \ l1_blocks,
     l2_blocks |-> db.l2_blocks \ l2_blocks,
     deposits |-> db.deposits \ deposits,
     withdrawals |-> db.withdrawals \ withdrawals,
     superseded |-> withdrawals \ db.withdrawals]

\* the number of statements the closure of handler op executes for a bundle:
\* AddIndexedL1Block returns after the block row when the bundle has no deposit
StatementCount(op, block) ==
    IF op = "AddIndexedL1Block"
    THEN IF Len(block.Deposits) = 0 THEN 1
         ELSE 1 + Len(block.Deposits) + Len(block.Withdrawals)
    ELSE 1 + Len(block.Withdrawals)

\* the k-th statement the closure of handler op executes for a bundle
Statement(op, db, block, k) ==
    IF op = "AddIndexedL1Block"
    THEN IF k = 1 THEN insertL1BlockStatement(db, block)
         ELSE IF k <= 1 + Len(block.Deposits)
         THEN insertDepositStatement(db, NewGUID("l1", block.Hash, "deposits", k - 1),
                                     block.Deposits[k - 1], block)
         ELSE LET i == k - 1 - Len(block.Deposits)
              IN  insertL1WithdrawalStatement(
                      db, NewGUID("l1", block.Hash, "withdrawals", i),
                      block.Withdrawals[i], block)
    ELSE IF k = 1 THEN insertL2BlockStatement(db, block)
         ELSE insertL2WithdrawalStatement(
                  db, NewGUID("l2", block.Hash, "withdrawals", k - 1),
                  block.Withdrawals[k - 1], block)

\* the unique key the k-th statement writes, as <<table, key>>; a deposit
\* INSERT writes none
KeyOf(op, block, k) ==
    IF k = 1
    THEN <<IF op = "AddIndexedL1Block" THEN "l1_blocks" ELSE "l2_blocks",
           HexString(block.Hash)>>
    ELSE IF op = "AddIndexedL1Block"
    THEN IF k <= 1 + Len(block.Deposits) THEN NULL
         ELSE <<"withdrawals",
                HexString(block.Withdrawals[k - 1 - Len(block.Deposits)].TxHash)>>
    ELSE <<"withdrawals", HexString(block.Withdrawals[k - 1].TxHash)>>

\* producer q's open transaction has written a row of that unique key
Holds(q, key) ==
    /\ inflight[q] # NULL
    /\ key # NULL
    /\ \/ key[1] = "l1_blocks" /\ BlockHashExists(inflight[q].writes.l1_blocks, key[2])
       \/ key[1] = "l2_blocks" /\ BlockHashExists(inflight[q].writes.l2_blocks, key[2])
       \/ key[1] = "withdrawals" /\ TxHashConflict(inflight[q].writes.withdrawals, key[2]) # {}

\* the next statement of producer p waits for another transaction to end
Waits(p) ==
    \E q \in Producers \ {p} :
        Holds(q, KeyOf(inflight[p].op, inflight[p].block, inflight[p].k + 1))

\* the open transactions once producer p's call has returned err: a call
\* still open for the same handler and block hash has seen its first rival, a
\* call that began when the hash was not stored, return <<err>>
Returned(p, err) ==
    [q \in Producers |->
        IF q = p THEN NULL
        ELSE IF /\ inflight[q] # NULL
                /\ inflight[q].op = inflight[p].op
                /\ inflight[q].block.Hash = inflight[p].block.Hash
                /\ inflight[q].rival = NULL
                /\ inflight[p].fresh
        THEN [inflight[q] EXCEPT !.rival = <<err>>]
        ELSE inflight[q]]

\* producer p calls handler op for a bundle: txn begins a transaction
Begin(p, op, block) ==
    /\ inflight[p] = NULL
    /\ inflight' = [inflight EXCEPT ![p] =
                       [op |-> op, block |-> block, k |-> 0,
                        writes |-> NoWrites, rival |-> NULL,
                        fresh |-> ~BlockHashExists(
                                      IF op = "AddIndexedL1Block"
                                      THEN l1_blocks ELSE l2_blocks,
                                      HexString(block.Hash))]]
    /\ UNCHANGED <<tables, ret, pager>>

\* the closure of producer p's call executes its next statement; an error
\* (fail: the storage connection failed) is returned from the closure, txn
\* rolls the transaction back and the call returns the error
ExecNext(p, fail) ==
    /\ inflight[p] # NULL
    /\ inflight[p].k < StatementCount(inflight[p].op, inflight[p].block)
    /\ ~Waits(p)
    /\ LET t == inflight[p]
           r == IF fail THEN [err |-> ConnectivityError, db |-> View(p)]
                ELSE Statement(t.op, View(p), t.block, t.k + 1)
       IN  IF r.err # nil
           THEN /\ inflight' = Returned(p, r.err)
                /\ ret' = [op |-> t.op, arg |-> t.block, err |-> r.err, val |-> NULL]
                /\ UNCHANGED <<tables, pager>>
           ELSE /\ inflight' = [inflight EXCEPT ![p] =
                                   [t EXCEPT !.k = @ + 1, !.writes = WritesOf(r.db)]]
                /\ UNCHANGED <<tables, ret, pager>>

\* the closure of producer p's call has returned nil: txn commits, the writes
\* of the transaction become the tables' rows in one step, the call returns nil
Commit(p) ==
    /\ inflight[p] # NULL
    /\ inflight[p].k = StatementCount(inflight[p].op, inflight[p].block)
    /\ LET v == View(p)
       IN  /\ l1_blocks' = v.l1_blocks
           /\ l2_blocks' = v.l2_blocks
           /\ deposits' = v.deposits
           /\ withdrawals' = v.withdrawals
    /\ inflight' = Returned(p, nil)
    /\ ret' = [op |-> inflight[p].op, arg |-> inflight[p].block, err |-> nil, val |-> NULL]
    /\ UNCHANGED <<l1_tokens, l2_tokens, pager>>

\* ------------------------------------------------------------------ inputs
\* the initiation event of withdrawal tx, as scanned on the destination chain
WithdrawalInitiated(tx) ==
    [FromAddress |-> tx, ToAddress |-> tx, L1Token |-> 1, L2Token |-> 1,
     Amount |-> 100 * tx, TxHash |-> tx, LogIndex |-> 0, Data |-> "initiated"]

\* the finalization event of withdrawal tx, as scanned on the origin chain; all
\* its fields but TxHash and L2Token differ from the initiation event's
WithdrawalFinalized(tx) ==
    [FromAddress |-> tx + MaxTx, ToAddress |-> tx + MaxTx, L1Token |-> 2, L2Token |-> 1,
     Amount |-> 100 * tx + 1, TxHash |-> tx, LogIndex |-> 1, Data |-> "finalized"]

\* a deposit event sent by address a
Deposit(a) ==
    [FromAddress |-> a, ToAddress |-> a, L1Token |-> 1, L2Token |-> 1,
     Amount |-> 10 * a, TxHash |-> 100 + a, LogIndex |-> 0, Data |-> "deposit"]

\* the header of the block at height n of a chain
HeaderOf(n) == [ParentHash |-> n - 1, Number |-> n, Timestamp |-> 10 * n]

\* one header per block hash
Canonical == [h \in Hashes |-> {HeaderOf(h)}]

\* the chain's first block only
First == [h \in Hashes |-> IF h = 1 THEN {HeaderOf(h)} ELSE {}]

\* two headers per block hash; blocks 1 and 2 may carry the same timestamp
Reorged == [h \in Hashes |-> {HeaderOf(h), HeaderOf(h + 1)}]

\* sequences over S of length at most n
SeqUpTo(S, n) == UNION {[1..k -> S] : k \in 0..n}

\* statement numbers at which the storage connection may fail while the
\* bundle is written (0: never)
FailsL1(block) == 0..(1 + Len(block.Deposits) + Len(block.Withdrawals))
FailsL2(block) == 0..(1 + Len(block.Withdrawals))

\* bundles of the origin chain: headers Hd[h], deposits sent by Senders,
\* finalizations of the withdrawals Txs
L1Bundles(Hd, Senders, Txs) ==
    {[Hash |-> h, ParentHash |-> hd.ParentHash, Number |-> hd.Number,
      Timestamp |-> hd.Timestamp,
      Deposits |-> [i \in DOMAIN as |-> Deposit(as[i])],
      Withdrawals |-> [i \in DOMAIN txs |-> WithdrawalFinalized(txs[i])]] :
        <<h, hd>> \in UNION {{h} \X Hd[h] : h \in Hashes},
        as \in SeqUpTo(Senders, MaxEvents), txs \in SeqUpTo(Txs, MaxEvents)}

\* bundles of the destination chain: headers Hd[h], initiations of the withdrawals Txs
L2Bundles(Hd, Txs) ==
    {[Hash |-> h, ParentHash |-> hd.ParentHash, Number |-> hd.Number,
      Timestamp |-> hd.Timestamp,
      Withdrawals |-> [i \in DOMAIN txs |-> WithdrawalInitiated(txs[i])]] :
        <<h, hd>> \in UNION {{h} \X Hd[h] : h \in Hashes},
        txs \in SeqUpTo(Txs, MaxEvents)}

Tokens == {[Name |-> "Ether", Symbol |-> "ETH", Decimals |-> 18]}

\* the metadata a producer registers for a token
TokenMetadata ==
    {[Name |-> "Ether", Symbol |-> "ETH", Decimals |-> 18],
     [Name |-> "Dai Stablecoin", Symbol |-> "DAI", Decimals |-> 6]}

\* ------------------------------------------------------------------ specifications
Init ==
    /\ l1_blocks = {}
    /\ l2_blocks = {}
    /\ l1_tokens = {}
    /\ l2_tokens = {}
    /\ deposits = {}
    /\ withdrawals = {}
    /\ ret = [op |-> "NewDatabase", arg |-> NULL, err |-> nil, val |-> NULL]
    /\ pager = NULL
    /\ inflight = [p \in Producers |-> NULL]

\* withdrawal correlation: every withdrawal, one header per block hash
Next ==
    \/ \E block \in L1Bundles(Canonical, {1}, TxHashes) : \E fail \in FailsL1(block) :
           AddIndexedL1Block(block, fail)
    \/ \E block \in L2Bundles(Canonical, TxHashes) : \E fail \in FailsL2(block) :
           AddIndexedL2Block(block, fail)
    \/ \E token \in Tokens : AddL2Token(HexString(1), token)
    \/ \E hash \in TxHashes : GetWithdrawalStatus(hash)

Spec == Init /\ [][Next]_vars

\* block admission: blocks re-delivered under another header, one withdrawal
NextBlocks ==
    \/ \E block \in L1Bundles(Reorged, {1}, {1}) : \E fail \in FailsL1(block) :
           AddIndexedL1Block(block, fail)
    \/ \E block \in L2Bundles(Reorged, {1}) : \E fail \in FailsL2(block) :
           AddIndexedL2Block(block, fail)

SpecBlocks == Init /\ [][NextBlocks]_vars

\* deposit listing: a reader pages through the deposits of an address while
\* nothing is written
NextPaging ==
    \/ /\ pager = NULL
       /\ \E block \in L1Bundles(Reorged, {1, 2}, {}) : \E fail \in FailsL1(block) :
              AddIndexedL1Block(block, fail)
    \/ /\ pager = NULL
       /\ \E token \in Tokens : AddL1Token(HexString(1), token)
    \/ \E address \in {1, 2}, limit \in 1..MaxLimit, offset \in 0..(MaxHash * MaxEvents) :
           GetDepositsByAddress(address, limit, offset)

SpecPaging == Init /\ [][NextPaging]_vars

\* withdrawal listing: initiations, finalizations that arrive first, the
\* destination token, and a reader listing the withdrawals of an address
NextListing ==
    \/ \E block \in L2Bundles(Canonical, TxHashes) : \E fail \in FailsL2(block) :
           AddIndexedL2Block(block, fail)
    \/ \E block \in L1Bundles(Canonical, {1}, {1}) : \E fail \in FailsL1(block) :
           AddIndexedL1Block(block, fail)
    \/ \E token \in Tokens : AddL2Token(HexString(1), token)
    \/ \E address \in 1..(MaxTx + 1), limit \in 1..MaxLimit, offset \in 0..MaxEvents :
           GetWithdrawalsByAddress(address, limit, offset)

SpecListing == Init /\ [][NextListing]_vars

\* token registry: two addresses registered and looked up in both chain scopes
NextTokens ==
    \/ \E a \in {1, 2}, token \in TokenMetadata : AddL1Token(HexString(a), token)
    \/ \E a \in {1, 2}, token \in TokenMetadata : AddL2Token(HexString(a), token)
    \/ \E a \in {1, 2}, fail \in BOOLEAN : GetL1TokenByAddress(HexString(a), fail)
    \/ \E a \in {1, 2}, fail \in BOOLEAN : GetL2TokenByAddress(HexString(a), fail)

SpecTokens == Init /\ [][NextTokens]_vars

\* concurrent ingestion: two producers ingest, statement by statement, bundles
\* of the first origin block and of the destination blocks, all of one
\* withdrawal, while a reader looks blocks up
NextConcurrent ==
    \/ \E p \in Producers, block \in L1Bundles(First, {1}, {1}) :
           Begin(p, "AddIndexedL1Block", block)
    \/ \E p \in Producers, block \in L2Bundles(Canonical, {1}) :
           Begin(p, "AddIndexedL2Block", block)
    \/ \E p \in Producers, fail \in BOOLEAN : ExecNext(p, fail)
    \/ \E p \in Producers : Commit(p)
    \/ \E hash \in Hashes : GetIndexedL1BlockByHash(hash)

SpecConcurrent == Init /\ [][NextConcurrent]_vars

\* block locator: blocks of both chains delivered in any order, under either
\* of two heights, and a producer asking where to resume
NextLocator ==
    \/ \E block \in L1Bundles(Reorged, {}, {}) : \E fail \in FailsL1(block) :
           AddIndexedL1Block(block, fail)
    \/ \E block \in L2Bundles(Reorged, {}) : \E fail \in FailsL2(block) :
           AddIndexedL2Block(block, fail)
    \/ \E fail \in BOOLEAN : GetHighestL1Block(fail)
    \/ \E fail \in BOOLEAN : GetHighestL2Block(fail)

SpecLocator == Init /\ [][NextLocator]_vars

\* ------------------------------------------------------------------ properties
\* the withdrawal rows of transaction tx
RowsFor(tbl, tx) == {w \in tbl : w.tx_hash = HexString(tx)}

\* the transaction hashes of the withdrawal events of a bundle
TxsOf(block) == {block.Withdrawals[i].TxHash : i \in DOMAIN block.Withdrawals}

\* C1: for a withdrawal tx with initiation I in destination block D and
\* finalization F in origin block O, the deliveries I then F, F then I and
\* I, F, I all end with exactly one row for tx whose l2_block_hash is D and
\* whose l1_block_hash is O.  Stated on the delivery that completes each order
\* (deliveries the storage connection breaks are not deliveries).
C1_OrderIndependent ==
    [][\A tx \in TxHashes :
        \* I then F: F arrives in a new origin block
        /\ ( /\ ret'.op = "AddIndexedL1Block"
             /\ ret'.err # ConnectivityError
             /\ ~BlockHashExists(l1_blocks, HexString(ret'.arg.Hash))
             /\ tx \in TxsOf(ret'.arg)
             /\ \E w \in RowsFor(withdrawals, tx) :
                    w.l2_block_hash # NULL /\ w.l1_block_hash = NULL )
           => \E w \in RowsFor(withdrawals, tx) :
                  RowsFor(withdrawals', tx) =
                      {[w EXCEPT !.l1_block_hash = HexString(ret'.arg.Hash)]}
        \* F then I: I arrives in a new destination block
        /\ ( /\ ret'.op = "AddIndexedL2Block"
             /\ ret'.err # ConnectivityError
             /\ ~BlockHashExists(l2_blocks, HexString(ret'.arg.Hash))
             /\ tx \in TxsOf(ret'.arg)
             /\ \E w \in RowsFor(withdrawals, tx) :
                    w.l1_block_hash # NULL /\ w.l2_block_hash = NULL )
           => /\ Cardinality(RowsFor(withdrawals', tx)) = 1
              /\ \E w \in RowsFor(withdrawals, tx) : \A v \in RowsFor(withdrawals', tx) :
                     /\ v.l1_block_hash = w.l1_block_hash
                     /\ v.l2_block_hash = HexString(ret'.arg.Hash)
        \* I, F, I: block D is delivered again after I and F
        /\ ( /\ ret'.op = "AddIndexedL2Block"
             /\ ret'.err # ConnectivityError
             /\ tx \in TxsOf(ret'.arg)
             /\ \E w \in RowsFor(withdrawals, tx) :
                    /\ w.l1_block_hash # NULL
                    /\ w.l2_block_hash = HexString(ret'.arg.Hash) )
           => /\ Cardinality(RowsFor(withdrawals', tx)) = 1
              /\ \A v \in RowsFor(withdrawals', tx) :
                     /\ v.l1_block_hash # NULL
                     /\ v.l2_block_hash = HexString(ret'.arg.Hash)
      ]_vars

\* C2: in every reachable state the withdrawals table holds at most one row
\* per tx_hash.
C2_OneRowPerTxHash ==
    \A w1, w2 \in withdrawals : w1.tx_hash = w2.tx_hash => w1 = w2

\* a finalization was delivered by a second origin block and merged into the
\* row the first one created
C2_Witness ==
    /\ ret.op = "AddIndexedL1Block"
    /\ ret.err = nil
    /\ \E tx \in TxsOf(ret.arg) : \E w \in RowsFor(withdrawals, tx) :
           /\ w.l1_block_hash = HexString(ret.arg.Hash)
           /\ w.guid[1] = "l1"
           /\ w.guid[2] # ret.arg.Hash

\* C3: a call of AddIndexedL1Block or AddIndexedL2Block that returns an error,
\* whatever statement failed, leaves every table as it was before the call.
C3_FailedIngestChangesNothing ==
    [][(ret'.op \in {"AddIndexedL1Block", "AddIndexedL2Block"} /\ ret'.err # nil)
           => UNCHANGED tables]_vars

\* a destination bundle whose block row was inserted and whose withdrawal
\* insert then failed: the block row is gone again
C3_Witness ==
    /\ ret.op = "AddIndexedL2Block"
    /\ ret.err = DuplicateKey
    /\ TxsOf(ret.arg) # {}
    /\ ~BlockHashExists(l2_blocks, HexString(ret.arg.Hash))

\* C4: after a successful AddIndexedL1Block every withdrawal event of the
\* bundle has a row whose l1_block_hash is the ingested block's hash, whatever
\* the number of deposits in the bundle.
C4_FinalizationsUpserted ==
    (ret.op = "AddIndexedL1Block" /\ ret.err = nil)
        => \A tx \in TxsOf(ret.arg) : \E w \in RowsFor(withdrawals, tx) :
               w.l1_block_hash = HexString(ret.arg.Hash)

\* C5: AddIndexedL2Block of a new block whose bundle holds a withdrawal that
\* already has a row returns nil, admits the block and leaves exactly one row
\* for that withdrawal.
C5_InitiationOverExistingRow ==
    [][\A tx \in TxHashes :
        ( /\ ret'.op = "AddIndexedL2Block"
          /\ ret'.err # ConnectivityError
          /\ ~BlockHashExists(l2_blocks, HexString(ret'.arg.Hash))
          /\ tx \in TxsOf(ret'.arg)
          /\ RowsFor(withdrawals, tx) # {} )
        => /\ ret'.err = nil
           /\ BlockHashExists(l2_blocks', HexString(ret'.arg.Hash))
           /\ Cardinality(RowsFor(withdrawals', tx)) = 1
      ]_vars

C7_DuplicateBlockRejected ==
    [][/\ ( /\ ret'.op = "AddIndexedL1Block"
            /\ BlockHashExists(l1_blocks, HexString(ret'.arg.Hash)) )
          => (ret'.err # nil /\ UNCHANGED tables)
       /\ ( /\ ret'.op = "AddIndexedL2Block"
            /\ BlockHashExists(l2_blocks, HexString(ret'.arg.Hash)) )
          => (ret'.err # nil /\ UNCHANGED tables)
       /\ ( /\ ret'.op = "AddIndexedL1Block"
            /\ ~BlockHashExists(l1_blocks, HexString(ret'.arg.Hash))
            /\ BlockHashExists(l2_blocks, HexString(ret'.arg.Hash)) )
          => /\ ret'.err # DuplicateKey
             /\ ret'.err = nil => BlockHashExists(l1_blocks', HexString(ret'.arg.Hash))
       /\ ( /\ ret'.op = "AddIndexedL2Block"
            /\ ~BlockHashExists(l2_blocks, HexString(ret'.arg.Hash))
            /\ BlockHashExists(l1_blocks, HexString(ret'.arg.Hash))
            /\ TxsOf(ret'.arg) = {} )
          => /\ ret'.err # DuplicateKey
             /\ ret'.err = nil => BlockHashExists(l2_blocks', HexString(ret'.arg.Hash))
      ]_vars

\* an origin block was delivered again under another header and with events:
\* DuplicateKey, the stored header is the first one, and the destination chain
\* holds a block of the same hash
C7_Witness ==
    /\ ret.op = "AddIndexedL1Block"
    /\ ret.err = DuplicateKey
    /\ Len(ret.arg.Deposits) > 0
    /\ TxsOf(ret.arg) # {}
    /\ \E b \in l1_blocks :
           /\ b.hash = HexString(ret.arg.Hash)
           /\ b.number # ret.arg.Number
           /\ b.timestamp # ret.arg.Timestamp
           /\ b.parent_hash # HexString(ret.arg.ParentHash)
    /\ BlockHashExists(l2_blocks, HexString(ret.arg.Hash))

\* C8: GetWithdrawalStatus(h) returns no view and no error, and does not
\* crash, when the join of withdrawals, l1_blocks, l2_blocks and l2_tokens
\* holds no row for h.
C8_AbsentIsNotAnError ==
    (ret.op = "GetWithdrawalStatus" /\ selectWithdrawalStatement(DB, ret.arg) = {})
        => (ret.err = nil /\ ret.val = NULL)

\* C9: once destination block D1 with the initiation of h and then origin
\* block O1 with its finalization are ingested and the destination token is
\* registered, GetWithdrawalStatus(h) returns without error one view carrying
\* the initiation's amount and the numbers and timestamps of O1 and D1.
C9_StatusAfterFinalization ==
    ( /\ ret.op = "GetWithdrawalStatus"
      /\ l2_tokens # {}
      /\ \E w \in RowsFor(withdrawals, ret.arg) :
             w.l2_block_hash # NULL /\ w.l1_block_hash # NULL )
    => /\ ret.err = nil
       /\ ret.val # NULL
       /\ \E w \in RowsFor(withdrawals, ret.arg), o \in l1_blocks, d \in l2_blocks :
              /\ o.hash = w.l1_block_hash
              /\ d.hash = w.l2_block_hash
              /\ ret.val.Amount = DecString(WithdrawalInitiated(ret.arg).Amount)
              /\ ret.val.L1BlockNumber = o.number
              /\ ret.val.L1BlockTimestamp = o.timestamp
              /\ ret.val.L2BlockNumber = d.number
              /\ ret.val.L2BlockTimestamp = d.timestamp

\* C10: when a reader has fetched, with nothing written meanwhile, the pages of
\* an address at offsets 0, k, 2k, ... up to the N rows that match (1 <= k <= N),
\* every page's total is N and the pages together hold each of the N rows once.
C10_PagesCoverEveryRowOnce ==
    LET N == Cardinality(selectDepositsJoin(DB, pager.address))
    IN  (pager # NULL /\ N >= 1 /\ pager.limit <= N /\ pager.next >= N)
            => /\ pager.totals = {N}
               /\ Len(pager.rows) = N
               /\ {pager.rows[i].GUID : i \in DOMAIN pager.rows} =
                      {j[1].guid : j \in selectDepositsJoin(DB, pager.address)}

\* the withdrawal rows the listing of an address is about: sent by the
\* address, in a stored destination block, of a registered destination token
ListedWithdrawals(address) ==
    {w \in withdrawals :
        /\ w.from_address = HexString(address)
        /\ \E b \in l2_blocks : b.hash = w.l2_block_hash
        /\ \E t \in l2_tokens : t.address = w.l2_token}

\* C11: the Total returned by GetWithdrawalsByAddress is the number of
\* withdrawal rows that match the filter of the page (from_address, stored
\* destination block, registered destination token), whatever limit and offset
\* are; every row of the page is one of the rows counted.
C11_TotalCountsTheFilter ==
    (ret.op = "GetWithdrawalsByAddress")
        => /\ ret.val.Total = Cardinality(ListedWithdrawals(ret.arg))
           /\ Len(ret.val.Withdrawals) <= ret.val.Total
           /\ \A i \in DOMAIN ret.val.Withdrawals :
                  \E w \in ListedWithdrawals(ret.arg) : w.guid = ret.val.Withdrawals[i].GUID

\* a listing that returned a row while the table holds rows the filter excludes
C11_Witness ==
    /\ ret.op = "GetWithdrawalsByAddress"
    /\ Len(ret.val.Withdrawals) >= 1
    /\ ret.val.Total < Cardinality(withdrawals)

\* the listing of ret.arg holds exactly one row for the stored deposit d, with
\* the fields of the deposit event of that sender, the number and timestamp of
\* the stored block d came in and the metadata of its origin token
ListsDeposit(d) ==
    LET e == Deposit(ret.arg)
        rows == {i \in DOMAIN ret.val.Deposits : ret.val.Deposits[i].GUID = d.guid}
    IN  /\ Cardinality(rows) = 1
        /\ \A i \in rows : \E b \in l1_blocks, t \in l1_tokens :
               /\ b.hash = d.l1_block_hash
               /\ t.address = HexString(e.L1Token)
               /\ ret.val.Deposits[i] =
                      [GUID |-> d.guid,
                       FromAddress |-> HexString(e.FromAddress),
                       ToAddress |-> HexString(e.ToAddress),
                       Amount |-> DecString(e.Amount),
                       TxHash |-> HexString(e.TxHash),
                       Data |-> e.Data,
                       L1Token |-> [Address |-> t.address, Name |-> t.name,
                                    Symbol |-> t.symbol, Decimals |-> t.decimals],
                       L2Token |-> HexString(e.L2Token),
                       BlockNumber |-> b.number,
                       BlockTimestamp |-> b.timestamp]

\* GetDepositsByAddress was called at offset 0 with a limit that covers all the
\* deposits of the address
ListedInFull ==
    /\ ret.op = "GetDepositsByAddress"
    /\ ret.val.Offset = 0
    /\ ret.val.Limit >= Cardinality({d \in deposits : d.from_address = HexString(ret.arg)})

\* C12 as stated: every deposit ingested with an origin block is listed once,
\* with its fields, its block's number and timestamp and its token's metadata,
\* by GetDepositsByAddress(from_address, large limit, offset 0); no deposit of
\* another sender is listed.
C12_DepositRoundTrip ==
    ListedInFull
        => /\ \A d \in deposits : d.from_address = HexString(ret.arg) => ListsDeposit(d)
           /\ \A i \in DOMAIN ret.val.Deposits :
                  ret.val.Deposits[i].FromAddress = HexString(ret.arg)

\* C12 amended: the same, for every deposit whose origin token is registered in
\* l1_tokens; a deposit of an unregistered token is not listed.
C12_DepositRoundTripRegistered ==
    ListedInFull
        => /\ \A d \in deposits :
                  d.from_address = HexString(ret.arg)
                      => IF TokenAddressExists(l1_tokens, d.l1_token)
                         THEN ListsDeposit(d)
                         ELSE \A i \in DOMAIN ret.val.Deposits :
                                  ret.val.Deposits[i].GUID # d.guid
           /\ \A i \in DOMAIN ret.val.Deposits :
                  ret.val.Deposits[i].FromAddress = HexString(ret.arg)

\* a full listing that returned the deposit of an address, as ingested, while
\* the table holds a deposit of another sender
C12_Witness ==
    /\ ListedInFull
    /\ Len(ret.val.Deposits) = 1
    /\ \A d \in deposits : d.from_address = HexString(ret.arg) => ListsDeposit(d)
    /\ \E d \in deposits : d.from_address # HexString(ret.arg)

\* the token row AddL1Token / AddL2Token writes for the arguments of the call
TokenRow(address, token) ==
    [address |-> address, name |-> token.Name,
     symbol |-> token.Symbol, decimals |-> token.Decimals]

\* C13: AddL1Token (AddL2Token) for an address that l1_tokens (l2_tokens)
\* already holds returns an error and changes no table; no call of any handler
\* changes or removes a stored token row; for an address that only the other
\* scope's table holds the call succeeds and stores the row.
C13_TokenWriteOnce ==
    [][/\ ( ret'.op = "AddL1Token" /\ TokenAddressExists(l1_tokens, ret'.arg) )
          => (ret'.err # nil /\ UNCHANGED tables)
       /\ ( ret'.op = "AddL2Token" /\ TokenAddressExists(l2_tokens, ret'.arg) )
          => (ret'.err # nil /\ UNCHANGED tables)
       /\ l1_tokens \subseteq l1_tokens'
       /\ l2_tokens \subseteq l2_tokens'
       /\ ( ret'.op = "AddL1Token" /\ ~TokenAddressExists(l1_tokens, ret'.arg) )
          => /\ ret'.err = nil
             /\ l1_tokens' = l1_tokens \cup {TokenRow(ret'.arg, ret'.token)}
             /\ l2_tokens' = l2_tokens
       /\ ( ret'.op = "AddL2Token" /\ ~TokenAddressExists(l2_tokens, ret'.arg) )
          => /\ ret'.err = nil
             /\ l2_tokens' = l2_tokens \cup {TokenRow(ret'.arg, ret'.token)}
             /\ l1_tokens' = l1_tokens
      ]_vars

\* a second registration with other metadata was refused, and the same address
\* is registered, with that other metadata, in the other scope
C13_Witness ==
    /\ ret.op = "AddL1Token"
    /\ ret.err = DuplicateKey
    /\ \E t \in l1_tokens : t.address = ret.arg /\ t # TokenRow(ret.arg, ret.token)
    /\ TokenRow(ret.arg, ret.token) \in l2_tokens

\* the Token a lookup returns for a stored row
TokenOf(t) == [Name |-> t.name, Symbol |-> t.symbol, Decimals |-> t.decimals]

\* C14: GetL1TokenByAddress (GetL2TokenByAddress) returns either an error and
\* no token (the lookup failed), or no error and: no token when l1_tokens
\* (l2_tokens) holds no row of the address, else the metadata of that row,
\* which is what AddL1Token (AddL2Token) stored; the other scope's table plays
\* no part.
C14_LookupMatchesRegistry ==
    /\ \A sc \in {"L1", "L2"} :
           LET tbl == IF sc = "L1" THEN l1_tokens ELSE l2_tokens
           IN  (ret.op = "Get" \o sc \o "TokenByAddress")
                   => \/ ret.err = ConnectivityError /\ ret.val = NULL
                      \/ /\ ret.err = nil
                         /\ IF TokenAddressExists(tbl, ret.arg)
                            THEN \E t \in tbl : t.address = ret.arg /\ ret.val = TokenOf(t)
                            ELSE ret.val = NULL
    /\ (ret.op = "AddL1Token" /\ ret.err = nil) => TokenRow(ret.arg, ret.token) \in l1_tokens
    /\ (ret.op = "AddL2Token" /\ ret.err = nil) => TokenRow(ret.arg, ret.token) \in l2_tokens

\* a lookup found nothing in one scope for an address registered in the other
C14_Witness ==
    /\ ret.op = "GetL1TokenByAddress"
    /\ ret.err = nil
    /\ ret.val = NULL
    /\ TokenAddressExists(l2_tokens, ret.arg)
    /\ \E t \in l1_tokens : t.address # ret.arg

\* the events of the bundle ret'.arg, ingested by handler op into the block of
\* hash, are all among the rows of the tables after the step
BundleVisible(op, hash) ==
    IF op = "AddIndexedL1Block"
    THEN /\ \A i \in DOMAIN ret'.arg.Deposits :
                \E d \in deposits' : d.guid = NewGUID("l1", ret'.arg.Hash, "deposits", i)
         /\ \A tx \in TxsOf(ret'.arg) :
                \E w \in RowsFor(withdrawals', tx) : w.l1_block_hash = hash
    ELSE \A tx \in TxsOf(ret'.arg) :
                \E w \in RowsFor(withdrawals', tx) : w.l2_block_hash = hash

\* C15: whatever the interleaving of the producers' statements, the rows a
\* reader can see never hold a deposit or withdrawal whose block is not among
\* them, a block appears only in the step its ingestion commits and then
\* together with every event of its bundle, and no event appears in a step in
\* which no block appears.
C15_BundleVisibleAtOnce ==
    [][/\ \A d \in deposits' : BlockHashExists(l1_blocks', d.l1_block_hash)
       /\ \A w \in withdrawals' :
              /\ w.l1_block_hash # NULL => BlockHashExists(l1_blocks', w.l1_block_hash)
              /\ w.l2_block_hash # NULL => BlockHashExists(l2_blocks', w.l2_block_hash)
       /\ \A b \in l1_blocks' \ l1_blocks :
              /\ ret'.op = "AddIndexedL1Block" /\ ret'.err = nil
              /\ b.hash = HexString(ret'.arg.Hash)
              /\ BundleVisible("AddIndexedL1Block", b.hash)
       /\ \A b \in l2_blocks' \ l2_blocks :
              /\ ret'.op = "AddIndexedL2Block" /\ ret'.err = nil
              /\ b.hash = HexString(ret'.arg.Hash)
              /\ BundleVisible("AddIndexedL2Block", b.hash)
       /\ (deposits' # deposits \/ withdrawals' # withdrawals)
              => (l1_blocks' # l1_blocks \/ l2_blocks' # l2_blocks)
      ]_vars

\* C16: when the calls of two producers for the same handler and a block hash
\* that was not stored when they began were open at the same time and the
\* second of them returns (no storage failure in either), exactly one of the two has committed, the table holds
\* one block row of that hash, a call that returns an error has changed no
\* table, and the events stored for the block are those of the committed bundle.
C16_OneOfTwoCommits ==
    [][\A p \in Producers :
        ( /\ inflight[p] # NULL
          /\ inflight'[p] = NULL
          /\ inflight[p].fresh
          /\ inflight[p].rival # NULL
          /\ inflight[p].rival[1] # ConnectivityError
          /\ ret'.err # ConnectivityError )
        => LET hash == HexString(ret'.arg.Hash)
               blocks == IF ret'.op = "AddIndexedL1Block" THEN l1_blocks' ELSE l2_blocks'
           IN  /\ (ret'.err = nil) # (inflight[p].rival[1] = nil)
               /\ Cardinality({b \in blocks : b.hash = hash}) = 1
               /\ ret'.err # nil => UNCHANGED tables
               /\ ret'.err = nil
                      => /\ BundleVisible(ret'.op, hash)
                         /\ Cardinality({d \in deposits' : d.l1_block_hash = hash})
                                = IF ret'.op = "AddIndexedL1Block"
                                  THEN Len(ret'.arg.Deposits) ELSE 0
      ]_vars

\* C17: no call of any handler turns the l1_block_hash of a withdrawal row
\* back to NULL, clears its l2_block_hash or removes the row, once
\* l1_block_hash is set.
C17_FinalizedStaysFinalized ==
    [][\A w \in withdrawals :
           w.l1_block_hash # NULL
               => \E v \in withdrawals' :
                      /\ v.tx_hash = w.tx_hash
                      /\ v.l1_block_hash # NULL
                      /\ w.l2_block_hash # NULL => v.l2_block_hash # NULL
      ]_vars

\* the initiation of a withdrawal that is initiated and finalized was
\* delivered again in a new destination block and refused; the row still
\* holds both block references
C17_Witness ==
    /\ ret.op = "AddIndexedL2Block"
    /\ ret.err = DuplicateKey
    /\ ~BlockHashExists(l2_blocks, HexString(ret.arg.Hash))
    /\ \E tx \in TxsOf(ret.arg) : \E w \in RowsFor(withdrawals, tx) :
           w.l1_block_hash # NULL /\ w.l2_block_hash # NULL

\* the BlockLocator ret.val names a block of tbl whose number is the largest
Highest(tbl) ==
    IF tbl = {} THEN ret.val = NULL
    ELSE /\ ret.val # NULL
         /\ \E b \in tbl : b.number = ret.val.Number /\ b.hash = HexString(ret.val.Hash)
         /\ \A b \in tbl : b.number <= ret.val.Number

\* C18: GetHighestL1Block (GetHighestL2Block), when the lookup does not fail,
\* returns no locator and no error when l1_blocks (l2_blocks) is empty, and
\* else the number and hash of a stored block of that table whose number is
\* the largest in it; a failed lookup returns the error and no locator.
C18_HighestBlock ==
    /\ (ret.op = "GetHighestL1Block")
           => \/ ret.err = ConnectivityError /\ ret.val = NULL
              \/ ret.err = nil /\ Highest(l1_blocks)
    /\ (ret.op = "GetHighestL2Block")
           => \/ ret.err = ConnectivityError /\ ret.val = NULL
              \/ ret.err = nil /\ Highest(l2_blocks)

\* the origin chain holds two blocks of different heights, the destination
\* chain a higher one, and the locator of the origin chain was returned
C18_Witness ==
    /\ ret.op = "GetHighestL1Block"
    /\ ret.err = nil
    /\ Highest(l1_blocks)
    /\ \E a, b \in l1_blocks : a.number < b.number
    /\ \E d \in l2_blocks : d.number > ret.val.Number

\* C19: every withdrawal row has l1_block_hash or l2_block_hash set; every
\* block hash a withdrawal or deposit row holds is the hash of a stored block
\* of that chain; a row created by AddIndexedL1Block (a finalization that
\* found no row) has l1_block_hash set and l2_block_hash NULL.
C19_BlockReferences ==
    /\ \A w \in withdrawals :
           /\ w.l1_block_hash # NULL \/ w.l2_block_hash # NULL
           /\ w.l1_block_hash # NULL => BlockHashExists(l1_blocks, w.l1_block_hash)
           /\ w.l2_block_hash # NULL => BlockHashExists(l2_blocks, w.l2_block_hash)
           /\ w.guid[1] = "l1" => (w.l1_block_hash # NULL /\ w.l2_block_hash = NULL)
    /\ \A d \in deposits : BlockHashExists(l1_blocks, d.l1_block_hash)

\* the table holds a row created by a finalization and a row created by an
\* initiation and finalized later, next to a deposit
C19_Witness ==
    /\ \E w \in withdrawals : w.guid[1] = "l1" /\ w.l2_block_hash = NULL
    /\ \E w \in withdrawals : w.guid[1] = "l2" /\ w.l1_block_hash # NULL
    /\ deposits # {}

\* C20: a successful AddIndexedL1Block of a new block O2 whose bundle holds a
\* finalization of a withdrawal that an earlier origin block finalized leaves
\* the one row of that withdrawal with l1_block_hash = O2 and every other
\* column as it was.
C20_LatestFinalizationWins ==
    [][\A tx \in TxHashes : \A w \in RowsFor(withdrawals, tx) :
        ( /\ ret'.op = "AddIndexedL1Block"
          /\ ret'.err = nil
          /\ tx \in TxsOf(ret'.arg)
          /\ w.l1_block_hash # NULL
          /\ w.l1_block_hash # HexString(ret'.arg.Hash) )
        => RowsFor(withdrawals', tx) =
               {[w EXCEPT !.l1_block_hash = HexString(ret'.arg.Hash)]}
      ]_vars

====
